---- MODULE Spec2Model ----
(***************************************************************************)
(* Model of lib/cli.js of Yeti: the command line client that negotiates a  *)
(* connection to a hub (or creates one), waits for agents, submits a batch *)
(* of test files and folds the batch's events into a tally and an exit     *)
(* status.                                                                 *)
(*                                                                         *)
(* The hub, the client handle and the batch handle are outside cli.js.     *)
(* Their callbacks and events are the environment: each callback of cli.js *)
(* is one action, fired with whatever arguments the collaborator may pass. *)
(* process.exit ends the process: no handler runs once pc = "exited".      *)
(***************************************************************************)
EXTENDS Integers, Sequences, FiniteSets, TLC

\* ---------------------------------------------------------------- bounds
\* Largest number of HTML files on the command line.
MaxFiles == 2
\* Agents that may report results: 1..NumAgents.
NumAgents == 2
\* Largest passed / failed count carried by one agentResult event.
MaxCount == 1
\* Most nodes (suites and tests) of a result tree, and its greatest depth.
MaxNodes == 5
MaxDepth == 4
\* Most agents a getAgents answer or a dispatch event lists.
MaxAttached == 2
\* Events the hub and the client may send by themselves (agentResult,
\* agentBeat, agentProgress, the informational events) in a run followed
\* from the start of the process ...
RunEvents == 1
\* ... and in a run followed from the submission of the batch.
BatchEvents == 2

Agents == 1..NumAgents

\* ---------------------------------------------------------------- constants
\* port = options.port || 9000, and the default hub URL names the same port.
DefaultPort == 9000
\* A port given with --port.
OtherPort == 8090
\* spin = ["/", "|", "\\", "-"]; spins = spin.length - 1.
spins == 3

\* --port values nopt may hand over: 0 stands for "not given".
PortArgs == {0, OtherPort}
\* --hub values: "" stands for "not given".
HubArgs == {"", "http://localhost:9000", "http://hub.example"}
\* err.code of a hub "error" event.
HubErrorCodes == {"EADDRINUSE", "EOTHER"}

VARIABLES
    pc,            \* where the process is: which callback it is waiting for
    exitStatus,    \* status given to process.exit, -1 while running
    exitedBy,      \* which code path ended the process
    isTTY,         \* process.stderr.isTTY
    files,         \* options.argv.remain.length (tests.length)
    port,          \* runBatch / startServer: port
    url,           \* runBatch: url
    hubOpt,        \* options.hub
    hub,           \* the local Hub object: "none", "binding", "listening"
    net,           \* connection bookkeeping (attempt counters, outcome)
    waiter,        \* prepareTests bookkeeping (agents reported, prompt, batch)
    batchDetails,  \* submitBatch: batchDetails
    beats,         \* submitBatch: beats
    spinIndex,     \* submitBatch: spinIndex
    inflight,      \* agentResult events emitted by the hub, not yet handled
    sent,          \* what the hub has emitted so far (sums and count)
    dispatch,      \* the agent count of the dispatch event, -1 before it
    progress,      \* the progress line last written by updateProgress
    log,           \* what was written to stderr / stdout, by kind
    diag,          \* the diagnostic printed by panic
    quota,         \* events the hub and the client may still send by themselves
    result,        \* displayVerboseResult: result, the tree being reported
    printed        \* displayVerboseResult: the lines it wrote to stderr

vars == <<pc, exitStatus, exitedBy, isTTY, files, port, url, hubOpt, hub, net,
          waiter, batchDetails, beats, spinIndex, inflight, sent, dispatch,
          progress, log, diag, quota, result, printed>>

procVars == <<isTTY, files, port, url, hubOpt>>
batchVars == <<batchDetails, beats, spinIndex, dispatch, progress>>
walkVars == <<result, printed>>

NoDiag == [kind |-> "none", port |-> 0, err |-> "none"]

Init ==
    /\ pc = "start"
    /\ exitStatus = -1
    /\ exitedBy = "none"
    /\ isTTY \in BOOLEAN
    /\ files = 0
    /\ port = 0
    /\ url = ""
    /\ hubOpt = ""
    /\ hub = "none"
    /\ net = [target |-> 0, local |-> 0, hubs |-> 0, outcome |-> "none",
              targetFailed |-> 0,
              localFailed |-> 0, hubAtConnect |-> "none",
              bindFailed |-> FALSE, localAtBindFailure |-> -1]
    /\ waiter = [prepared |-> 0, agents |-> -1, emitted |-> 0, prompts |-> 0,
                 lines |-> 0, batches |-> 0, emittedAtSubmit |-> -1]
    /\ batchDetails = [passed |-> 0, failed |-> 0, currentIndex |-> 0, total |-> 0]
    /\ beats = 0
    /\ spinIndex = 0
    /\ inflight = [a \in Agents |-> <<>>]
    /\ sent = [passed |-> 0, failed |-> 0, count |-> 0]
    /\ dispatch = -1
    /\ progress = [shown |-> FALSE, kind |-> "none", percent |-> 0]
    /\ log = [connect |-> 0, disconnect |-> 0, started |-> 0, failures |-> 0,
              scriptErrors |-> 0, errors |-> 0, completed |-> 0,
              connectFailed |-> 0, connected |-> 0,
              tally |-> "none", out |-> "none", listening |-> 0]
    /\ diag = NoDiag
    /\ quota = RunEvents
    /\ result = <<>>
    /\ printed = <<>>

\* ---------------------------------------------------------------- process
Alive == pc # "exited"

\* process.exit(code)
Exit(code, by) ==
    /\ pc' = "exited"
    /\ exitStatus' = code
    /\ exitedBy' = by

\* panic(...): print the diagnostic, exit 1.
panic(kind, p, err, by) ==
    /\ diag' = [kind |-> kind, port |-> p, err |-> err]
    /\ Exit(1, by)

\* A throw inside a callback reaches the uncaughtException handler installed
\* by setupProcess, which formats the error (one of two layouts, by isTTY)
\* and panics.  The message holds the text of err and nothing else of the
\* run: p is the port that text names, 0 when it names none.
setupProcess_exitsZero(err, p, by) ==
    /\ diag' = [kind |-> IF isTTY THEN "whoops" ELSE "report", port |-> p,
                err |-> err]
    /\ Exit(0, by)
setupProcess(err, p, by) ==
    panic(IF isTTY THEN "whoops" ELSE "report", p, err, by)

\* ---------------------------------------------------------------- runBatch
\* "http://localhost:" + port
LocalURL(p) ==
    IF p = DefaultPort THEN "http://localhost:9000" ELSE "http://localhost:8090"

\* prepareTests(client): ask the client for its agents; the answer arrives in
\* GetAgentsCallback.  outcome tells which connection the client stands for.
prepareTests(outcome) ==
    /\ pc' = "queryAgents"
    /\ waiter' = [waiter EXCEPT !.prepared = @ + 1]
    /\ net' = [net EXCEPT !.outcome = outcome]

\* client = hubClient.createClient(url); client.connect(cb), in connectToURL.
connectToURL ==
    /\ net' = [net EXCEPT !.target = @ + 1]
    /\ pc' = "connecting"

\* createHub(): create the Hub, start listening, and at once connect a client
\* to the local URL; the bind and the connection complete later, in any order.
createHub(n) ==
    /\ url' = LocalURL(port)
    /\ hub' = "binding"
    /\ net' = [n EXCEPT !.hubs = @ + 1, !.local = @ + 1,
                        !.hubAtConnect = "binding"]
    /\ pc' = "localConnecting"

\* submitBatch(client, files): create the batch and reset the aggregate.
submitBatch(w) ==
    /\ waiter' = [w EXCEPT !.batches = @ + 1, !.emittedAtSubmit = w.emitted]
    /\ batchDetails' = [passed |-> 0, failed |-> 0, currentIndex |-> 0,
                        total |-> files]
    /\ beats' = 0
    /\ spinIndex' = 0
    /\ pc' = "batch"

\* if (options.argv.remain.length): files were named, run them.
haveFiles_always(nf) == TRUE
haveFiles(nf) == nf > 0

\* exports.route(argv)
route ==
    /\ pc = "start"
    /\ \E nf \in 0..MaxFiles, server \in BOOLEAN, version \in BOOLEAN,
          dashV \in BOOLEAN, help \in BOOLEAN,
          hubArg \in HubArgs, portArg \in PortArgs :
         IF haveFiles(nf)
         THEN \* runBatch(options)
              /\ files' = nf
              /\ port' = IF portArg # 0 THEN portArg ELSE DefaultPort
              /\ hubOpt' = hubArg
              /\ url' = IF hubArg # "" THEN hubArg ELSE "http://localhost:9000"
              /\ connectToURL \* after "Ignoring --server option." if server
              /\ UNCHANGED <<exitStatus, exitedBy, hub, log, diag>>
         ELSE IF server
         THEN \* startServer(options)
              /\ port' = IF portArg # 0 THEN portArg ELSE DefaultPort
              /\ hub' = "binding"
              /\ pc' = "serving"
              /\ UNCHANGED <<exitStatus, exitedBy, files, url, hubOpt, net,
                             log, diag>>
         ELSE IF version \/ dashV
         THEN /\ log' = [log EXCEPT !.out = "version"]
              /\ Exit(0, "idle")
              /\ UNCHANGED <<files, port, url, hubOpt, hub, net, diag>>
         ELSE IF help
         THEN /\ log' = [log EXCEPT !.out = "usage"]
              /\ Exit(0, "idle")
              /\ UNCHANGED <<files, port, url, hubOpt, hub, net, diag>>
         ELSE /\ panic("usage", 0, "none", "route")
              /\ UNCHANGED <<files, port, url, hubOpt, hub, net, log>>
    /\ UNCHANGED <<quota, isTTY, waiter, batchVars, inflight, sent>>
    /\ UNCHANGED walkVars

\* if (options.hub): the user named a hub, tell them it did not answer.
hubGiven_notDefault(h) == h # "" /\ h # "http://localhost:9000"
hubGiven(h) == h # ""

ConnectFailed_fallsThrough ==
    /\ pc = "connecting"
    /\ log' = [log EXCEPT !.connectFailed = IF hubGiven(hubOpt) THEN @ + 1 ELSE @]
    /\ createHub([net EXCEPT !.targetFailed = @ + 1, !.outcome = "remote"])
    /\ waiter' = [waiter EXCEPT !.prepared = @ + 1]
    /\ UNCHANGED <<quota, exitStatus, exitedBy, isTTY, files, port, hubOpt,
                   batchVars, inflight, sent, diag>>
    /\ UNCHANGED walkVars

\* connectToURL: the callback of client.connect with an error.
ConnectFailed ==
    /\ pc = "connecting"
    /\ log' = [log EXCEPT !.connectFailed = IF hubGiven(hubOpt) THEN @ + 1 ELSE @]
    /\ createHub([net EXCEPT !.targetFailed = @ + 1])
    /\ UNCHANGED <<quota, exitStatus, exitedBy, isTTY, files, port, hubOpt, waiter,
                   batchVars, inflight, sent, diag>>
    /\ UNCHANGED walkVars

\* connectToURL: the callback of client.connect without an error.
ConnectSucceeded ==
    /\ pc = "connecting"
    /\ log' = [log EXCEPT !.connected = @ + 1]
    /\ prepareTests("remote")
    /\ UNCHANGED <<quota, exitStatus, exitedBy, procVars, hub, batchVars, inflight,
                   sent, diag>>
    /\ UNCHANGED walkVars

LocalConnectFailed_retry ==
    /\ pc = "localConnecting"
    /\ net.hubs < 3
    /\ createHub([net EXCEPT !.localFailed = @ + 1])
    /\ UNCHANGED <<quota, exitStatus, exitedBy, isTTY, files, port, hubOpt,
                   waiter, batchVars, inflight, sent, log, diag>>
    /\ UNCHANGED walkVars

\* createHub: the callback of client.connect with an error: throw err.
LocalConnectFailed ==
    /\ pc = "localConnecting"
    /\ net' = [net EXCEPT !.localFailed = @ + 1]
    /\ setupProcess("connect", 0, "throw")
    /\ UNCHANGED <<quota, procVars, hub, waiter, batchVars, inflight, sent, log>>
    /\ UNCHANGED walkVars

\* createHub: the callback of client.connect without an error.
LocalConnectSucceeded ==
    /\ pc = "localConnecting"
    /\ prepareTests("local")
    /\ UNCHANGED <<quota, exitStatus, exitedBy, procVars, hub, batchVars, inflight,
                   sent, log, diag>>
    /\ UNCHANGED walkVars

\* hub.listen(port[, cb]) completes: the hub is bound.  Only startServer
\* passes a callback, which logs the port.
HubListening ==
    /\ Alive
    /\ hub = "binding"
    /\ hub' = "listening"
    /\ log' = [log EXCEPT !.listening = IF pc = "serving" THEN @ + 1 ELSE @]
    /\ UNCHANGED <<quota, pc, exitStatus, exitedBy, procVars, net, waiter, batchVars,
                   inflight, sent, diag>>
    /\ UNCHANGED walkVars

\* The hub emits "error".  createHub's handler rethrows whatever the error
\* is; startServer's handler names the port when the code is EADDRINUSE.
\* Whether the text of the hub's error names the port is the hub's business.
HubError ==
    /\ Alive
    /\ hub \in {"binding", "listening"}
    /\ \E code \in HubErrorCodes, named \in BOOLEAN :
         /\ code = "EADDRINUSE" => hub = "binding"
         /\ net' = [net EXCEPT
                      !.bindFailed = @ \/ (code = "EADDRINUSE" /\ pc # "serving"),
                      !.localAtBindFailure =
                          IF code = "EADDRINUSE" /\ pc # "serving"
                          THEN net.local ELSE @]
         /\ IF pc = "serving" /\ code = "EADDRINUSE"
            THEN panic("portInUse", port, code, "panic")
            ELSE setupProcess(code, IF named THEN port ELSE 0, "throw")
    /\ hub' = "failed"
    /\ UNCHANGED <<quota, procVars, waiter, batchVars, inflight, sent, log>>
    /\ UNCHANGED walkVars

\* ---------------------------------------------------------------- prepareTests
\* if (agents.length > 0): agents are attached, submit at once.
agentsAttached_offByOne(n) == n > 1
agentsAttached(n) == n > 0

\* if (!isTTY): nobody can be asked to wait for agents, fail.
notInteractive_never == FALSE
notInteractive == ~isTTY

\* The callback of client.getAgents.  Each agentConnect it emits is logged by
\* the handler prepareTests registered right after calling getAgents.
GetAgentsCallback ==
    /\ pc = "queryAgents"
    /\ \E err \in BOOLEAN, n \in 0..MaxAttached :
         IF err
         THEN /\ setupProcess("getAgents", 0, "throw")
              /\ UNCHANGED <<waiter, batchDetails, beats, spinIndex, log>>
         ELSE LET w == [waiter EXCEPT !.agents = n, !.emitted = @ + n]
              IN  /\ log' = [log EXCEPT !.connect = @ + n]
                  /\ IF agentsAttached(n)
                     THEN /\ submitBatch(w)
                          /\ UNCHANGED <<exitStatus, exitedBy, diag>>
                     ELSE IF notInteractive
                     THEN /\ waiter' = w
                          /\ setupProcess("noAgents", 0, "throw")
                          /\ UNCHANGED <<batchDetails, beats, spinIndex>>
                     ELSE /\ waiter' = [w EXCEPT !.prompts = @ + 1]
                          /\ pc' = "waitingInput"
                          /\ UNCHANGED <<exitStatus, exitedBy, diag,
                                         batchDetails, beats, spinIndex>>
    /\ UNCHANGED <<quota, procVars, hub, net, inflight, sent, dispatch, progress>>
    /\ UNCHANGED walkVars

\* The callback of rl.question: one line was read from stdin.
QuestionCallback ==
    /\ pc = "waitingInput"
    /\ submitBatch([waiter EXCEPT !.lines = @ + 1])
    /\ UNCHANGED <<quota, exitStatus, exitedBy, procVars, hub, net, inflight, sent,
                   dispatch, progress, log, diag>>
    /\ UNCHANGED walkVars

AgentConnect_submits ==
    /\ Alive
    /\ waiter.prepared > 0
    /\ quota > 0
    /\ quota' = quota - 1
    /\ log' = [log EXCEPT !.connect = @ + 1]
    /\ IF pc = "waitingInput"
       THEN submitBatch(waiter)
       ELSE UNCHANGED <<pc, waiter, batchDetails, beats, spinIndex>>
    /\ UNCHANGED <<exitStatus, exitedBy, procVars, hub, net, dispatch,
                   progress, inflight, sent, diag>>
    /\ UNCHANGED walkVars

\* client.on("agentConnect", ...)
AgentConnect ==
    /\ Alive
    /\ waiter.prepared > 0
    /\ quota > 0
    /\ quota' = quota - 1
    /\ log' = [log EXCEPT !.connect = @ + 1]
    /\ UNCHANGED <<pc, exitStatus, exitedBy, procVars, hub, net, waiter,
                   batchVars, inflight, sent, diag>>
    /\ UNCHANGED walkVars

\* client.on("agentDisconnect", ...)
AgentDisconnect ==
    /\ Alive
    /\ waiter.prepared > 0
    /\ quota > 0
    /\ quota' = quota - 1
    /\ log' = [log EXCEPT !.disconnect = @ + 1]
    /\ UNCHANGED <<pc, exitStatus, exitedBy, procVars, hub, net, waiter,
                   batchVars, inflight, sent, diag>>
    /\ UNCHANGED walkVars

\* ---------------------------------------------------------------- submitBatch
\* percent.toFixed(0) of current / total * 100: NaN for 0 / 0, Infinity for
\* k / 0, else the quotient rounded to the nearest integer.
Percent(current, total) ==
    IF total = 0
    THEN [kind |-> IF current = 0 THEN "NaN" ELSE "Infinity", percent |-> 0]
    ELSE [kind |-> "number",
          percent |-> (200 * current + total) \div (2 * total)]

\* updateProgress(): write the progress line, advance the spinner.  The
\* tests/sec figure depends on the clock and is not kept.
updateProgress(details) ==
    /\ progress' = [shown |-> TRUE,
                    kind |-> Percent(details.currentIndex, details.total).kind,
                    percent |-> Percent(details.currentIndex, details.total).percent]
    /\ spinIndex' = IF spinIndex + 1 > spins THEN 0 ELSE spinIndex + 1

\* The hub emits an agentResult event of agent a with counts p and f; it
\* reaches the process later, in order with a's other events.  The hub does
\* not know whether the process is still there.
EmitAgentResult ==
    /\ waiter.batches > 0
    /\ quota > 0
    /\ quota' = quota - 1
    /\ \E a \in Agents, p \in 0..MaxCount, f \in 0..MaxCount :
         /\ inflight' = [inflight EXCEPT ![a] = Append(@, <<p, f>>)]
         /\ sent' = [passed |-> sent.passed + p, failed |-> sent.failed + f,
                     count |-> sent.count + 1]
    /\ UNCHANGED <<pc, exitStatus, exitedBy, procVars, hub, net, waiter,
                   batchVars, log, diag>>
    /\ UNCHANGED walkVars

\* batchDetails.passed += passed; batchDetails.failed += failed
accumulate_overwrite(count, delta) == delta
accumulate(count, delta) == count + delta

\* batch.on("agentResult", ...)
AgentResult ==
    /\ pc = "batch"
    /\ \E a \in Agents :
         /\ inflight[a] # <<>>
         /\ LET passed == Head(inflight[a])[1]
                failed == Head(inflight[a])[2]
            IN  /\ batchDetails' = [batchDetails EXCEPT
                                      !.currentIndex = @ + 1,
                                      !.passed = accumulate(@, passed),
                                      !.failed = accumulate(@, failed)]
                \* the failure line and displayVerboseResult(details)
                /\ log' = [log EXCEPT !.failures = IF failed # 0 THEN @ + 1 ELSE @]
         /\ inflight' = [inflight EXCEPT ![a] = Tail(@)]
    /\ UNCHANGED <<quota, pc, exitStatus, exitedBy, procVars, hub, net, waiter, beats,
                   spinIndex, sent, dispatch, progress, diag>>
    /\ UNCHANGED walkVars

\* batch.on("agentScriptError", ...)
AgentScriptError ==
    /\ pc = "batch"
    /\ quota > 0
    /\ quota' = quota - 1
    /\ log' = [log EXCEPT !.scriptErrors = @ + 1]
    /\ UNCHANGED <<pc, exitStatus, exitedBy, procVars, hub, net, waiter,
                   batchVars, inflight, sent, diag>>
    /\ UNCHANGED walkVars

AgentError_fatal ==
    /\ pc = "batch"
    /\ quota > 0
    /\ quota' = quota - 1
    /\ log' = [log EXCEPT !.errors = @ + 1]
    /\ setupProcess("agentError", 0, "throw")
    /\ UNCHANGED <<procVars, hub, net, waiter, batchVars, inflight, sent>>
    /\ UNCHANGED walkVars

\* batch.on("agentError", ...)
AgentError ==
    /\ pc = "batch"
    /\ quota > 0
    /\ quota' = quota - 1
    /\ log' = [log EXCEPT !.errors = @ + 1]
    /\ UNCHANGED <<pc, exitStatus, exitedBy, procVars, hub, net, waiter,
                   batchVars, inflight, sent, diag>>
    /\ UNCHANGED walkVars

\* batch.on("agentComplete", ...)
AgentComplete ==
    /\ pc = "batch"
    /\ quota > 0
    /\ quota' = quota - 1
    /\ log' = [log EXCEPT !.completed = @ + 1]
    /\ UNCHANGED <<pc, exitStatus, exitedBy, procVars, hub, net, waiter,
                   batchVars, inflight, sent, diag>>
    /\ UNCHANGED walkVars

\* batch.on("agentProgress", ...)
AgentProgress ==
    /\ pc = "batch"
    /\ quota > 0
    /\ quota' = quota - 1
    /\ updateProgress(batchDetails)
    /\ UNCHANGED <<pc, exitStatus, exitedBy, procVars, hub, net, waiter,
                   batchDetails, beats, inflight, sent, dispatch, log, diag>>
    /\ UNCHANGED walkVars

AgentBeat_counts ==
    /\ pc = "batch"
    /\ quota > 0
    /\ quota' = quota - 1
    /\ beats' = beats + 1
    /\ batchDetails' = [batchDetails EXCEPT !.currentIndex = @ + 1]
    /\ updateProgress(batchDetails')
    /\ UNCHANGED <<pc, exitStatus, exitedBy, procVars, hub, net, waiter,
                   inflight, sent, dispatch, log, diag>>
    /\ UNCHANGED walkVars

\* batch.on("agentBeat", ...)
AgentBeat ==
    /\ pc = "batch"
    /\ quota > 0
    /\ quota' = quota - 1
    /\ beats' = beats + 1
    /\ updateProgress(batchDetails)
    /\ UNCHANGED <<pc, exitStatus, exitedBy, procVars, hub, net, waiter,
                   batchDetails, inflight, sent, dispatch, log, diag>>
    /\ UNCHANGED walkVars

\* if (!agents.length): nobody to run the batch.
noBrowsers_never(agents) == FALSE
noBrowsers(agents) == agents = 0

\* batchDetails.total *= agents.length
scaleTotal_adds(total, agents) == total + agents
scaleTotal(total, agents) == total * agents

\* batch.on("dispatch", ...): the batch was handed to agents.length agents.
\* The hub dispatches a batch once.
Dispatch ==
    /\ pc = "batch"
    /\ dispatch = -1
    /\ \E agents \in 0..MaxAttached :
         /\ dispatch' = agents
         /\ IF noBrowsers(agents)
            THEN /\ panic("noBrowsers", 0, "none", "panic")
                 /\ UNCHANGED <<batchDetails, log>>
            ELSE /\ log' = [log EXCEPT !.started = @ + 1]
                 /\ batchDetails' = [batchDetails EXCEPT !.total = scaleTotal(@, agents)]
                 /\ UNCHANGED <<pc, exitStatus, exitedBy, diag>>
    /\ UNCHANGED <<quota, procVars, hub, net, waiter, beats, spinIndex, inflight,
                   sent, progress>>
    /\ UNCHANGED walkVars

\* if (batchDetails.failed): the branch that reports failures and exits 1.
anyFailed_never(failed) == FALSE
anyFailed(failed) == failed # 0

Complete_staysAlive ==
    /\ pc = "batch"
    /\ updateProgress(batchDetails)
    /\ log' = [log EXCEPT !.tally = IF anyFailed(batchDetails.failed)
                                     THEN "failures" ELSE "passed"]
    /\ exitStatus' = IF anyFailed(batchDetails.failed) THEN 1 ELSE 0
    /\ exitedBy' = "complete"
    /\ UNCHANGED <<pc, quota, procVars, hub, net, waiter, batchDetails, beats,
                   inflight, sent, dispatch, diag>>
    /\ UNCHANGED walkVars

\* batch.on("complete", ...)
Complete ==
    /\ pc = "batch"
    /\ updateProgress(batchDetails)
    /\ IF anyFailed(batchDetails.failed)
       THEN /\ log' = [log EXCEPT !.tally = "failures"]
            /\ Exit(1, "complete")
       ELSE /\ log' = [log EXCEPT !.tally = "passed"]
            /\ Exit(0, "complete")
    /\ UNCHANGED <<quota, procVars, hub, net, waiter, batchDetails, beats, inflight,
                   sent, dispatch, diag>>
    /\ UNCHANGED walkVars

\* ---------------------------------------------------------------- displayVerboseResult
\* The details of an agentResult event are the report of the test framework:
\* an object whose object-valued properties are suites; a suite holds test
\* cases or further suites, and a test case holds tests.  A suite carries
\* passed, failed, type and name; a test carries result, message and name.
\* Object-valued properties are kept in the order for-in walks them; the
\* other properties (numbers, strings) make no line and are left out.
SuiteNames == {"A", "B"}
TestNames == {"t"}

Test(n, r) == [name |-> n, result |-> r, kids |-> <<>>]
Suite(n, ks) == [name |-> n, result |-> "none", kids |-> ks]

RECURSIVE Trees(_, _), Forests(_, _)
\* The trees of exactly n nodes and depth d or less.
Trees(n, d) ==
    IF n = 0 \/ d = 0 THEN {}
    ELSE IF n = 1 THEN {Test(t, r) : t \in TestNames, r \in {"pass", "fail"}}
    ELSE {Suite(a, ks) : a \in SuiteNames, ks \in Forests(n - 1, d - 1)}
\* The sequences of trees of n nodes in all.
Forests(n, d) ==
    IF n = 0 THEN {<<>>}
    ELSE UNION {{<<t>> \o f : t \in Trees(k, d), f \in Forests(n - k, d)} :
                k \in 1..n}

\* The reports: at the top there are suites only.
Results ==
    {f \in UNION {Forests(n, MaxDepth) : n \in 1..MaxNodes} :
        \A k \in 1..Len(f) : f[k].result = "none"}

RECURSIVE count(_, _), countIn(_, _)
\* The number of tests with result r in a tree: the passed and failed
\* properties the framework gives a suite.
count(node, r) ==
    IF node.result = "none" THEN countIn(node.kids, r)
    ELSE IF node.result = r THEN 1 ELSE 0
countIn(forest, r) ==
    IF forest = <<>> THEN 0
    ELSE count(Head(forest), r) + countIn(Tail(forest), r)

\* Lines of stderr.  owner and top tell where the test of a "test" line was
\* found: the name of the object holding it, and the index k of the top-level
\* property it lies under.
SuiteLine(n) == [kind |-> "in", name |-> n, owner |-> "", top |-> 0]
TestLine(n, owner, k) == [kind |-> "test", name |-> n, owner |-> owner, top |-> k]
BlankLine == [kind |-> "blank", name |-> "", owner |-> "", top |-> 0]

\* hasResults(o): ('passed' in test) && ('failed' in test) && ('type' in test).
\* It looks at the variable test of displayVerboseResult, not at o.
hasResults(o, test) == test.result = "none"

\* reportTestError(test): for a failed test, the suite line unless the last
\* one printed names the same suite, then the test's name and message.  The
\* suite is the variable suite of displayVerboseResult.
reportTestError_always(test, suite, owner, k, st) ==
    IF test.result = "fail"
    THEN [lastSuite |-> suite.name,
          out |-> st.out \o <<SuiteLine(suite.name),
                              TestLine(test.name, owner.name, k)>>]
    ELSE st
reportTestError(test, suite, owner, k, st) ==
    IF test.result = "fail"
    THEN LET named == IF st.lastSuite = "" \/ st.lastSuite # suite.name
                      THEN [lastSuite |-> suite.name,
                            out |-> Append(st.out, SuiteLine(suite.name))]
                      ELSE st
         IN  [named EXCEPT !.out = Append(@, TestLine(test.name, owner.name, k))]
    ELSE st

RECURSIVE walk(_, _, _, _, _), walkFrom(_, _, _, _, _, _)
\* walk(o): for (i in o) report o[i] if hasResults says so, else walk o[i].
walk(o, test, suite, k, st) == walkFrom(o, 1, test, suite, k, st)
walkFrom(o, i, test, suite, k, st) ==
    IF i > Len(o.kids) THEN st
    ELSE walkFrom(o, i + 1, test, suite, k,
                  IF hasResults(o.kids[i], test)
                  THEN reportTestError(o.kids[i], suite, o, k, st)
                  ELSE walk(o.kids[i], test, suite, k, st))

RECURSIVE suiteLoop(_, _, _, _), resultLoop(_, _, _)
\* for (k1 in suite): test = suite[k1]; walk it or report it.
suiteLoop(suite, k1, k, st) ==
    IF k1 > Len(suite.kids) THEN st
    ELSE LET test == suite.kids[k1]
         IN  suiteLoop(suite, k1 + 1, k,
                       IF hasResults(test, test)
                       THEN walk(test, test, suite, k, st)
                       ELSE reportTestError(test, suite, suite, k, st))
\* for (k in result): suite = result[k]; if (suite.failed) look into it.
resultLoop(res, k, st) ==
    IF k > Len(res) THEN st
    ELSE resultLoop(res, k + 1,
                    IF count(res[k], "fail") # 0
                    THEN suiteLoop(res[k], 1, k, st)
                    ELSE st)

\* displayVerboseResult(result): the lines it writes, the closing blank one
\* included.
displayVerboseResult(res) ==
    Append(resultLoop(res, 1, [lastSuite |-> "", out |-> <<>>]).out, BlankLine)

\* batch.on("agentResult", ...) for an event whose details are result.
AgentResultDetails ==
    /\ pc = "batch"
    /\ batchDetails.currentIndex = 0
    /\ LET passed == countIn(result, "pass")
           failed == countIn(result, "fail")
       IN  /\ batchDetails' = [batchDetails EXCEPT
                                 !.currentIndex = @ + 1,
                                 !.passed = accumulate(@, passed),
                                 !.failed = accumulate(@, failed)]
           /\ log' = [log EXCEPT !.failures = IF failed # 0 THEN @ + 1 ELSE @]
           /\ printed' = IF failed # 0 THEN displayVerboseResult(result)
                         ELSE printed
    /\ UNCHANGED <<pc, exitStatus, exitedBy, procVars, hub, net, waiter, beats,
                   spinIndex, inflight, sent, dispatch, progress, diag, quota,
                   result>>

\* ---------------------------------------------------------------- behaviours
Next ==
    \/ route
    \/ ConnectFailed
    \/ ConnectSucceeded
    \/ LocalConnectFailed
    \/ LocalConnectSucceeded
    \/ HubListening
    \/ HubError
    \/ GetAgentsCallback
    \/ QuestionCallback
    \/ AgentConnect
    \/ AgentDisconnect
    \/ EmitAgentResult
    \/ AgentResult
    \/ AgentScriptError
    \/ AgentError
    \/ AgentComplete
    \/ AgentProgress
    \/ AgentBeat
    \/ Dispatch
    \/ Complete

Spec == Init /\ [][Next]_vars

\* The states in which submitBatch leaves a run that connected to the default
\* hub at once and found agents attached: route, ConnectSucceeded,
\* GetAgentsCallback.
Submitted(fileCounts) ==
    /\ pc = "batch"
    /\ exitStatus = -1
    /\ exitedBy = "none"
    /\ isTTY \in BOOLEAN
    /\ files \in fileCounts
    /\ port = DefaultPort
    /\ url = "http://localhost:9000"
    /\ hubOpt = ""
    /\ hub = "none"
    /\ net = [target |-> 1, local |-> 0, hubs |-> 0, outcome |-> "remote",
              targetFailed |-> 0,
              localFailed |-> 0, hubAtConnect |-> "none",
              bindFailed |-> FALSE, localAtBindFailure |-> -1]
    /\ \E n \in 1..MaxAttached :
         /\ waiter = [prepared |-> 1, agents |-> n, emitted |-> n,
                      prompts |-> 0, lines |-> 0, batches |-> 1,
                      emittedAtSubmit |-> n]
         /\ log = [connect |-> n, disconnect |-> 0, started |-> 0,
                   failures |-> 0, scriptErrors |-> 0, errors |-> 0,
                   completed |-> 0, connectFailed |-> 0, connected |-> 1,
                   tally |-> "none", out |-> "none", listening |-> 0]
    /\ batchDetails = [passed |-> 0, failed |-> 0, currentIndex |-> 0,
                       total |-> files]
    /\ beats = 0
    /\ spinIndex = 0
    /\ inflight = [a \in Agents |-> <<>>]
    /\ sent = [passed |-> 0, failed |-> 0, count |-> 0]
    /\ dispatch = -1
    /\ progress = [shown |-> FALSE, kind |-> "none", percent |-> 0]
    /\ diag = NoDiag
    /\ quota = BatchEvents

\* route starts runBatch with one file or more.
BatchInit ==
    /\ Submitted(1..MaxFiles)
    /\ result = <<>>
    /\ printed = <<>>

\* submitBatch itself takes any list of tests, the empty one too.
ProgressInit ==
    /\ Submitted(0..MaxFiles)
    /\ result = <<>>
    /\ printed = <<>>

\* What can happen to a submitted batch over a remote connection.
BatchNext ==
    \/ AgentConnect
    \/ AgentDisconnect
    \/ EmitAgentResult
    \/ AgentResult
    \/ AgentScriptError
    \/ AgentError
    \/ AgentComplete
    \/ AgentProgress
    \/ AgentBeat
    \/ Dispatch
    \/ Complete

BatchSpec == BatchInit /\ [][BatchNext]_vars

\* One agentResult event with a report for details, handled in a batch of
\* one file.
WalkInit ==
    /\ Submitted({1})
    /\ isTTY
    /\ waiter.agents = 1
    /\ result \in Results
    /\ printed = <<>>

WalkSpec == WalkInit /\ [][AgentResultDetails]_vars

\* submitBatch and its handlers, for every list of tests.
ProgressSpec == ProgressInit /\ [][BatchNext]_vars

TypeOK ==
    /\ pc \in {"start", "connecting", "localConnecting", "queryAgents",
               "waitingInput", "batch", "serving", "exited"}
    /\ exitStatus \in {-1, 0, 1}
    /\ spinIndex \in 0..spins
    /\ quota \in Nat

\* ---------------------------------------------------------------- properties
AllHandled == \A a \in Agents : inflight[a] = <<>>

\* C1: once every agentResult event the hub emitted has been handled, in
\* whatever order the agents' events arrived, passed is the sum of the passed
\* counts emitted and failed the sum of the failed counts emitted.
C1_SumsOfCounts ==
    AllHandled =>
        /\ batchDetails.passed = sent.passed
        /\ batchDetails.failed = sent.failed

\* Two events carrying passes and failures were emitted and both handled.
C1_Witness ==
    /\ AllHandled
    /\ sent.count >= 2
    /\ batchDetails.currentIndex = sent.count
    /\ batchDetails.passed >= 2
    /\ batchDetails.failed >= 1

\* C2: when the complete handler ends the process, the status is 0 if the
\* accumulated failed count is 0 and 1 otherwise.
C2_ExitStatus ==
    exitedBy = "complete" =>
        /\ exitStatus \in {0, 1}
        /\ exitStatus = 0 <=> batchDetails.failed = 0

\* complete arrived after a failing result was counted.
C2_Witness ==
    /\ exitedBy = "complete"
    /\ batchDetails.failed > 0
    /\ exitStatus = 1

\* C3: after a dispatch event listing N >= 1 agents, total is the number of
\* files times N.
C3_TotalAfterDispatch ==
    dispatch >= 1 => batchDetails.total = files * dispatch

\* Two files were dispatched to two agents.
C3_Witness ==
    /\ dispatch = 2
    /\ files = 2
    /\ batchDetails.total = 4

\* C4: a dispatch event listing no agent ends the process with status 1
\* inside the handler: total is not multiplied, "Testing started" is not
\* logged, and from then on no handler changes the aggregate, the output or
\* the exit status.
C4_EmptyDispatchIsFatal ==
    [][/\ dispatch' = 0 =>
            /\ pc' = "exited"
            /\ exitStatus' = 1
            /\ diag'.kind = "noBrowsers"
            /\ batchDetails'.total = files'
            /\ log'.started = 0
       /\ dispatch = 0 =>
            UNCHANGED <<pc, exitStatus, exitedBy, batchDetails, beats,
                        spinIndex, progress, log, diag>>]_vars

\* The empty dispatch was handled while a result was still on its way.
C4_Witness ==
    /\ dispatch = 0
    /\ exitStatus = 1
    /\ ~AllHandled

\* C5: once the complete handler has run, nothing changes the aggregate, the
\* output or the exit status any more, whatever the hub still sends.
C5_CompleteIsTerminal ==
    [][exitedBy = "complete" =>
          /\ pc = "exited"
          /\ UNCHANGED <<pc, exitStatus, exitedBy, batchDetails, beats,
                         spinIndex, progress, log, diag>>]_vars

\* complete was handled while a result was still on its way.
C5_Witness ==
    /\ exitedBy = "complete"
    /\ log.tally # "none"
    /\ ~AllHandled

\* C6: no agents attached and stderr not a terminal: the process ends with
\* status 1 in the getAgents callback; no batch is created, no prompt is
\* opened and no progress line is written.
C6_NoAgentsNotInteractive ==
    (waiter.agents = 0 /\ ~isTTY) =>
        /\ pc = "exited"
        /\ exitStatus = 1
        /\ diag.err = "noAgents"
        /\ waiter.batches = 0
        /\ waiter.prompts = 0
        /\ ~progress.shown

\* getAgents answered with no agents in a run whose stderr is not a terminal.
C6_Witness ==
    /\ waiter.agents = 0
    /\ ~isTTY
    /\ exitStatus = 1

\* C7: no agents attached and stderr a terminal: one prompt is opened, and the
\* batch is submitted once, by the line read at the prompt: there are as many
\* batches as lines read, at most one, however many agentConnect and
\* agentDisconnect notifications were logged.
C7_SubmitAfterOneLine ==
    (waiter.agents = 0 /\ isTTY) =>
        /\ waiter.prompts = 1
        /\ waiter.lines <= 1
        /\ waiter.batches = waiter.lines
        /\ pc = "waitingInput" => waiter.lines = 0

\* A notification was logged and the batch was submitted by the line read.
C7_Witness ==
    /\ waiter.agents = 0
    /\ isTTY
    /\ log.connect + log.disconnect > 0
    /\ waiter.lines = 1
    /\ waiter.batches = 1

\* C8: one or more agents attached: the getAgents callback has emitted one
\* agentConnect per agent and then submitted the batch, without a prompt and
\* without reading a line, whether or not stderr is a terminal.
C8_SubmitAtOnce ==
    waiter.agents >= 1 =>
        /\ waiter.batches = 1
        /\ waiter.prompts = 0
        /\ waiter.lines = 0
        /\ waiter.emitted = waiter.agents
        /\ waiter.emittedAtSubmit = waiter.agents

\* One agent was attached in a run that could have prompted.
C8_Witness ==
    /\ waiter.agents = 1
    /\ isTTY
    /\ waiter.batches = 1
    /\ waiter.emitted = 1

\* C9: the target is tried once; each failure of that attempt creates one
\* local hub and tries the local hub once; a failure of that second attempt
\* ends the process with status 1.  No run makes more than two attempts or
\* more than one hub.
C9_NoRetry ==
    /\ net.target <= 1
    /\ files > 0 => net.target = 1
    /\ net.hubs = net.targetFailed
    /\ net.local = net.targetFailed
    /\ net.target + net.local <= 2
    /\ net.localFailed <= net.local
    /\ net.localFailed > 0 => (pc = "exited" /\ exitStatus = 1)

\* Both attempts were made and both failed.
C9_Witness ==
    /\ net.target = 1
    /\ net.targetFailed = 1
    /\ net.local = 1
    /\ net.localFailed = 1
    /\ exitStatus = 1

\* C10: when the fallback hub cannot bind its port, the process ends with
\* status 1 and a diagnostic naming the port, and no connection to the local
\* hub is attempted after the bind failure.
C10_BindFailureNamesPort ==
    net.bindFailed =>
        /\ exitStatus = 1
        /\ diag.port = port
        /\ net.local = net.localAtBindFailure

\* C11 as stated: a failed first attempt is logged exactly when the user asked
\* for a hub other than the default one, and always falls back to a local hub.
C11_ReportedIffNotDefault ==
    net.targetFailed = 1 =>
        /\ log.connectFailed = 1 <=> hubOpt \notin {"", "http://localhost:9000"}
        /\ net.hubs = 1
        /\ net.local = 1

\* C11, amended: a failed first attempt is logged exactly when the user gave
\* --hub, whatever URL it names (the default URL included), and always falls
\* back to a local hub.
C11_ReportedIffHubGiven ==
    net.targetFailed = 1 =>
        /\ log.connectFailed = 1 <=> hubOpt # ""
        /\ net.hubs = 1
        /\ net.local = 1
        /\ url = LocalURL(port)

\* The user named the default URL, the attempt failed and was logged.
C11_Witness ==
    /\ net.targetFailed = 1
    /\ hubOpt = "http://localhost:9000"
    /\ log.connectFailed = 1
    /\ net.hubs = 1

\* C12: handling an agentScriptError or an agentError event leaves the
\* process running with its exit status and its counts untouched, and a run
\* that ends at complete with no failed test exits 0 whatever was logged.
C12_AgentErrorsNotFatal ==
    [][/\ (log'.scriptErrors # log.scriptErrors \/ log'.errors # log.errors) =>
            /\ pc' = "batch"
            /\ UNCHANGED <<pc, exitStatus, exitedBy, diag, batchDetails>>
       /\ (exitedBy' = "complete" /\ batchDetails'.failed = 0) =>
            exitStatus' = 0]_vars

\* A script error and an agent error were logged and the run passed.
C12_Witness ==
    /\ log.scriptErrors = 1
    /\ log.errors = 1
    /\ exitedBy = "complete"
    /\ exitStatus = 0

Reported == batchDetails.currentIndex = 1 /\ result # <<>>

\* The positions of the printed lines of one kind.
Lines(kind) == {i \in 1..Len(printed) : printed[i].kind = kind}

\* C14: every failing test of the report, at whatever depth, is printed once,
\* and no passing test is printed.
C14_EveryFailurePrintedOnce ==
    Reported =>
        /\ Cardinality(Lines("test")) = countIn(result, "fail")
        /\ \A i \in Lines("test") : printed[i].name \in TestNames

Last(S) == CHOOSE i \in S : \A j \in S : j <= i

\* The suite lines stand as the headings h (one name for each test line)
\* ask: the last suite line before a test line bears the test's heading, and
\* a suite line stands right before a test line exactly when there is no
\* earlier test line or the earlier one has another heading.
HeadedBy(h) ==
    /\ \A i \in Lines("in") : i + 1 \in Lines("test")
    /\ \A i \in Lines("test") :
         LET before == {j \in Lines("in") : j < i}
             earlier == {j \in Lines("test") : j < i}
         IN  /\ before # {}
             /\ printed[Last(before)].name = h[i]
             /\ (i - 1 \in Lines("in")) <=>
                    (earlier = {} \/ h[Last(earlier)] # h[i])

\* C17 as stated: the suite line names the suite that holds the failing
\* test, and is printed only when that differs from the suite of the failure
\* printed before.
C17_OwnerHeadsFailure ==
    Reported => HeadedBy([i \in Lines("test") |-> printed[i].owner])

\* C17, amended: the suite line names the top-level suite the failing test
\* lies under, and is printed only when that name differs from the one of the
\* failure printed before.
C17_TopSuiteHeadsFailure ==
    Reported => HeadedBy([i \in Lines("test") |-> result[printed[i].top].name])

\* Two failures of one suite under one suite line, then a failure of another
\* suite under a new one.
C17_Witness ==
    /\ Reported
    /\ Cardinality(Lines("test")) = 3
    /\ Cardinality(Lines("in")) = 2
    /\ printed[1].kind = "in"
    /\ printed[2].kind = "test"
    /\ printed[3].kind = "test"

\* A fatal condition has come up: the connection to the local hub failed, the
\* local hub failed, getAgents failed, no agent in a run nobody attends, no
\* browser at dispatch, no command on the command line.
Fatal ==
    \/ net.localFailed > 0
    \/ hub = "failed"
    \/ waiter.agents = 0 /\ ~isTTY
    \/ dispatch = 0
    \/ diag # NoDiag
    \/ exitedBy \in {"throw", "panic", "route"}

\* C15: a fatal condition ends the process with exit status 1 and a
\* diagnostic; the diagnostic is printed once in a run, by the step that
\* exits, and no handler of the program runs after it.
C15_FatalExitsOne ==
    [][/\ Fatal' => pc' = "exited" /\ exitStatus' = 1 /\ diag' # NoDiag
       /\ diag' # diag => diag = NoDiag /\ Alive /\ pc' = "exited"
       /\ ~Alive => UNCHANGED <<pc, exitStatus, exitedBy, procVars, hub, net,
                                 waiter, batchVars, log, diag>>]_vars

\* The connection to the local hub failed and the process has exited with 1.
C15_Witness ==
    /\ net.localFailed = 1
    /\ exitedBy = "throw"
    /\ diag.err = "connect"
    /\ exitStatus = 1

\* The number of agentResult events handled: those the hub has emitted less
\* those still on their way.
Handled ==
    sent.count - Cardinality({<<a, i>> \in Agents \X (1..sent.count) :
                                 i <= Len(inflight[a])})

\* What the handlers of agentScriptError, agentError, agentComplete,
\* agentConnect and agentDisconnect write.
Notes == <<log.scriptErrors, log.errors, log.completed, log.connect,
           log.disconnect>>

\* C16: the counts and currentIndex change only when an agentResult event is
\* handled, currentIndex by one, so that it is the number of events handled;
\* total changes only on dispatch; beats changes only on agentBeat, by one;
\* the handlers that write a note or the progress line leave the aggregate
\* alone, and those that write a note leave beats alone.
C16_HandlerFrame ==
    [][/\ batchDetails'.currentIndex = Handled'
       /\ batchDetails'.currentIndex - batchDetails.currentIndex \in {0, 1}
       /\ (\/ batchDetails'.passed # batchDetails.passed
           \/ batchDetails'.failed # batchDetails.failed
           \/ batchDetails'.currentIndex # batchDetails.currentIndex)
          => /\ Handled' = Handled + 1
             /\ batchDetails'.total = batchDetails.total
             /\ beats' = beats
       /\ batchDetails'.total # batchDetails.total
          => /\ dispatch = -1 /\ dispatch' > 0
             /\ beats' = beats
       /\ beats' # beats
          => /\ beats' = beats + 1
             /\ quota' = quota - 1
             /\ progress'.shown
             /\ dispatch' = dispatch
       /\ (Notes' # Notes \/ progress' # progress)
          => batchDetails' = batchDetails
       /\ Notes' # Notes => beats' = beats]_vars

\* One agentResult event and one agentBeat event were handled after the
\* dispatch.
C16_Witness ==
    /\ beats = 1
    /\ batchDetails.currentIndex = 1
    /\ dispatch = 2
    /\ batchDetails.total = 2 * files
    /\ pc = "batch"

\* C18: the client is connected to the local hub only once the hub is
\* listening, so that a hub able to bind its port always leads to
\* prepareTests with the local client: the connection to the local hub fails
\* only when the hub has failed.
C18_ConnectAfterListening ==
    /\ net.local > 0 => net.hubAtConnect = "listening"
    /\ net.localFailed > 0 => hub = "failed"

\* C19: prepareTests is entered at most once and the batch is created at most
\* once in a run; once prepareTests is entered there is one connection
\* outcome, the remote client when the first attempt succeeded and no hub was
\* created, the local one when it failed and one hub was created; before
\* that there is none.
C19_OnceEach ==
    /\ waiter.prepared <= 1
    /\ waiter.batches <= waiter.prepared
    /\ net.target <= 1 /\ net.hubs <= 1
    /\ waiter.prepared = 0 => net.outcome = "none"
    /\ waiter.prepared = 1 =>
         \/ net.outcome = "remote" /\ net.targetFailed = 0 /\ net.hubs = 0
         \/ net.outcome = "local" /\ net.targetFailed = 1 /\ net.hubs = 1

\* The batch was created over the local hub, after the prompt was answered.
C19_Witness ==
    /\ waiter.prepared = 1
    /\ waiter.batches = 1
    /\ waiter.lines = 1
    /\ net.outcome = "local"
    /\ net.targetFailed = 1

\* C20: in a run started by route, whenever the progress line has been
\* written the total is at least 1 and the percent is a number; the total is
\* at least 1 from the creation of the batch on, and at least the number of
\* agents after the dispatch.
C20_TotalAtLeastOne ==
    /\ progress.shown => batchDetails.total >= 1 /\ progress.kind = "number"
    /\ waiter.batches > 0 => batchDetails.total >= 1 /\ files >= 1
    /\ dispatch >= 1 => batchDetails.total >= dispatch

\* The progress line was written after a dispatch to two agents.
C20_Witness ==
    /\ progress.shown
    /\ progress.kind = "number"
    /\ dispatch = 2
    /\ batchDetails.total = 2 * files
    /\ exitedBy = "none"

====
